---- MODULE Spec2Model ----
(***************************************************************************)
(* Model of the Iterated Prisoner's Dilemma engine of evolutio             *)
(* (src/src-tauri/src/lib.rs): the payoff function, the eight strategies   *)
(* and their factory, and the three commands run_game, run_tournament and  *)
(* run_evolution.                                                          *)
(*                                                                         *)
(* Each command has its own specification (SpecGame, SpecTournament,       *)
(* SpecEvolution, SpecPayoff): a command runs to completion on its own     *)
(* locals, so the variables of the other commands stay idle.               *)
(***************************************************************************)
EXTENDS Integers, Sequences, FiniteSets, TLC

VARIABLES game, tourn, evo, pay, pav

vars == <<game, tourn, evo, pay, pav>>

(***************************************************************************)
(* Bounds of the model.                                                    *)
(***************************************************************************)
\* run_game is explored for every round count 0..MaxRounds.
MaxRounds == 5

\* Pavlov::next_move on its own is explored for every own-perspective history
\* of at most MaxHistory rounds.
MaxHistory == 2

\* With a noise probability strictly between 0 and 1 every history of a round
\* count can be recorded: those matches are explored up to MaxNoisyRounds.
MaxNoisyRounds == 4

\* Noise probabilities, in percent: 0 never flips, 100 always flips, and 50
\* stands for every probability strictly between (either outcome possible).
NoiseLevels == {0, 50, 100}

\* Identifiers outside the roster that callers are modelled to pass.
UnknownIds == {"", "TitForTat"}

(***************************************************************************)
(* 1. Action, Round                                                        *)
(***************************************************************************)
Cooperate == "Cooperate"
Defect == "Defect"
Action == {Cooperate, Defect}

toggle(a) == IF a = Cooperate THEN Defect ELSE Cooperate

\* history.iter().map(|(my, opp)| (*opp, *my)).collect()
Mirror(history) == [k \in 1..Len(history) |-> <<history[k][2], history[k][1]>>]

(***************************************************************************)
(* Payoff: the four arms of the match, with the literals of the source.    *)
(***************************************************************************)
\* The two mixed arms exchanged.
PayoffSwapped(a1, a2) ==
    CASE a1 = Defect /\ a2 = Cooperate -> <<0, 5>>
      [] a1 = Cooperate /\ a2 = Cooperate -> <<3, 3>>
      [] a1 = Defect /\ a2 = Defect -> <<1, 1>>
      [] a1 = Cooperate /\ a2 = Defect -> <<5, 0>>

\* The reward and punishment arms exchanged.
PayoffRewardAsPunishment(a1, a2) ==
    CASE a1 = Defect /\ a2 = Cooperate -> <<5, 0>>
      [] a1 = Cooperate /\ a2 = Cooperate -> <<1, 1>>
      [] a1 = Defect /\ a2 = Defect -> <<3, 3>>
      [] a1 = Cooperate /\ a2 = Defect -> <<0, 5>>

calculate_payoff(a1, a2) ==
    CASE a1 = Defect /\ a2 = Cooperate -> <<5, 0>>
      [] a1 = Cooperate /\ a2 = Cooperate -> <<3, 3>>
      [] a1 = Defect /\ a2 = Defect -> <<1, 1>>
      [] a1 = Cooperate /\ a2 = Defect -> <<0, 5>>

(***************************************************************************)
(* The random source.  rand::rng() is the thread's generator: every handle *)
(* draws from the same stream.  A stream is a finite bit pattern read      *)
(* cyclically; random_bool(p) takes one draw and answers FALSE for p = 0,  *)
(* TRUE for p = 1 and the drawn bit for any p strictly between.            *)
(***************************************************************************)
Advance(rng) == [rng EXCEPT !.pos = (rng.pos % Len(rng.bits)) + 1]

random_bool(rng, p) ==
    [val |-> IF p = 0 THEN FALSE ELSE IF p = 100 THEN TRUE ELSE rng.bits[rng.pos],
     rng |-> Advance(rng)]

(***************************************************************************)
(* 3. The strategies.  A strategy is a unit struct: it is modelled by its  *)
(* type name.  next_move answers [action, rng]: the action chosen and the  *)
(* random source after the draws the strategy made.                        *)
(***************************************************************************)
StrategyTypes == {"TitForTat", "AlwaysDefect", "GrimTrigger", "AlwaysCooperate",
                  "Random", "Pavlov", "GenerousTFT", "Joss"}

name(s) ==
    CASE s = "TitForTat" -> "Tit-For-Tat"
      [] s = "AlwaysDefect" -> "Always Defect"
      [] s = "GrimTrigger" -> "Grim Trigger"
      [] s = "AlwaysCooperate" -> "Always Cooperate"
      [] s = "Random" -> "Random"
      [] s = "Pavlov" -> "Pavlov"
      [] s = "GenerousTFT" -> "Generous TFT"
      [] s = "Joss" -> "Joss"

Last(history) == history[Len(history)]

\* Opens with Defect (a suspicious tit-for-tat).
TitForTatDefectFirst(history) ==
    IF history = <<>> THEN Defect ELSE Last(history)[2]

\* Copies its own last action instead of the opponent's (tuple index 0).
TitForTatOwnLast(history) ==
    IF history = <<>> THEN Cooperate ELSE Last(history)[1]

TitForTat_next_move(history) ==
    IF history = <<>> THEN Cooperate ELSE Last(history)[2]

AlwaysDefect_next_move(history) == Defect

\* Looks at the last round only instead of the whole history.
GrimTriggerLastOnly(history) ==
    IF history # <<>> /\ Last(history)[2] = Defect THEN Defect ELSE Cooperate

GrimTrigger_next_move(history) ==
    LET has_opponent_cheated == \E k \in 1..Len(history) : history[k][2] = Defect
    IN  IF has_opponent_cheated THEN Defect ELSE Cooperate

AlwaysCooperate_next_move(history) == Cooperate

Random_next_move(history, rng) ==
    LET r == random_bool(rng, 50)
    IN  [action |-> IF r.val THEN Cooperate ELSE Defect, rng |-> r.rng]

\* Win-stay with the bar at the punishment payoff: (Defect, Defect) counts as
\* a win.
PavlovStayOnPunishment(history) ==
    IF history = <<>> THEN Cooperate
    ELSE LET my_last == Last(history)[1]
             opp_last == Last(history)[2]
             my_score == calculate_payoff(my_last, opp_last)[1]
         IN  IF my_score >= 1 THEN my_last
             ELSE IF my_last = Cooperate THEN Defect ELSE Cooperate

Pavlov_next_move(history) ==
    IF history = <<>> THEN Cooperate
    ELSE LET my_last == Last(history)[1]
             opp_last == Last(history)[2]
             my_score == calculate_payoff(my_last, opp_last)[1]
         IN  IF my_score >= 3 THEN my_last
             ELSE IF my_last = Cooperate THEN Defect ELSE Cooperate

GenerousTFT_next_move(history, rng) ==
    IF history = <<>> THEN [action |-> Cooperate, rng |-> rng]
    ELSE IF Last(history)[2] = Cooperate THEN [action |-> Cooperate, rng |-> rng]
    ELSE LET r == random_bool(rng, 10)
         IN  [action |-> IF r.val THEN Cooperate ELSE Defect, rng |-> r.rng]

Joss_next_move(history, rng) ==
    IF history = <<>> THEN [action |-> Cooperate, rng |-> rng]
    ELSE IF Last(history)[2] = Defect THEN [action |-> Defect, rng |-> rng]
    ELSE LET r == random_bool(rng, 10)
         IN  [action |-> IF r.val THEN Defect ELSE Cooperate, rng |-> r.rng]

\* Dynamic dispatch of Strategy::next_move on a Box<dyn Strategy>.
next_move(s, history, rng) ==
    CASE s = "TitForTat" -> [action |-> TitForTat_next_move(history), rng |-> rng]
      [] s = "AlwaysDefect" -> [action |-> AlwaysDefect_next_move(history), rng |-> rng]
      [] s = "GrimTrigger" -> [action |-> GrimTrigger_next_move(history), rng |-> rng]
      [] s = "AlwaysCooperate" -> [action |-> AlwaysCooperate_next_move(history), rng |-> rng]
      [] s = "Random" -> Random_next_move(history, rng)
      [] s = "Pavlov" -> [action |-> Pavlov_next_move(history), rng |-> rng]
      [] s = "GenerousTFT" -> GenerousTFT_next_move(history, rng)
      [] s = "Joss" -> Joss_next_move(history, rng)

(***************************************************************************)
(* 4. The factory.                                                         *)
(***************************************************************************)
all_ids == <<"tit_for_tat", "always_defect", "grim_trigger", "always_cooperate",
             "random", "pavlov", "generous_tft", "joss">>

RosterIds == {all_ids[k] : k \in 1..Len(all_ids)}

\* The default arm building a TitForTat.
create_strategy_default_tft(id) ==
    CASE id = "tit_for_tat" -> "TitForTat"
      [] id = "always_defect" -> "AlwaysDefect"
      [] id = "grim_trigger" -> "GrimTrigger"
      [] id = "always_cooperate" -> "AlwaysCooperate"
      [] id = "random" -> "Random"
      [] id = "pavlov" -> "Pavlov"
      [] id = "generous_tft" -> "GenerousTFT"
      [] id = "joss" -> "Joss"
      [] OTHER -> "TitForTat"

create_strategy(id) ==
    CASE id = "tit_for_tat" -> "TitForTat"
      [] id = "always_defect" -> "AlwaysDefect"
      [] id = "grim_trigger" -> "GrimTrigger"
      [] id = "always_cooperate" -> "AlwaysCooperate"
      [] id = "random" -> "Random"
      [] id = "pavlov" -> "Pavlov"
      [] id = "generous_tft" -> "GenerousTFT"
      [] id = "joss" -> "Joss"
      [] OTHER -> "AlwaysDefect"

(***************************************************************************)
(* One iteration of the round loop (the same body in run_game,             *)
(* run_tournament and run_evolution): both intents on the history so far,  *)
(* then the two noise draws, then the recorded pair and its payoff.        *)
(***************************************************************************)
\* The noise drawn but left out of the record: the intended pair is what is
\* pushed and scored.
NoNoiseOnRecord(p1, p2, history, noise, rng) ==
    LET m1 == next_move(p1, history, rng)
        history_for_p2 == Mirror(history)
        m2 == next_move(p2, history_for_p2, m1.rng)
        n1 == random_bool(m2.rng, noise)
        n2 == random_bool(n1.rng, noise)
    IN  [intent1 |-> m1.action, intent2 |-> m2.action,
         flip1 |-> n1.val, flip2 |-> n2.val,
         a1 |-> m1.action, a2 |-> m2.action,
         payoff |-> calculate_payoff(m1.action, m2.action), rng |-> n2.rng]

\* intent1 and intent2 are the players' answers, flip1 and flip2 the two noise
\* draws, (a1, a2) the pair that is pushed and scored.
play_round(p1, p2, history, noise, rng) ==
    LET m1 == next_move(p1, history, rng)
        history_for_p2 == Mirror(history)
        m2 == next_move(p2, history_for_p2, m1.rng)
        n1 == random_bool(m2.rng, noise)
        a1 == IF n1.val THEN toggle(m1.action) ELSE m1.action
        n2 == random_bool(n1.rng, noise)
        a2 == IF n2.val THEN toggle(m2.action) ELSE m2.action
    IN  [intent1 |-> m1.action, intent2 |-> m2.action,
         flip1 |-> n1.val, flip2 |-> n2.val,
         a1 |-> a1, a2 |-> a2,
         payoff |-> calculate_payoff(a1, a2), rng |-> n2.rng]

(***************************************************************************)
(* Idle values of the commands that a specification does not run.          *)
(***************************************************************************)
IdleGame == [pc |-> "idle"]
IdleTourn == [pc |-> "idle"]
IdleEvo == [pc |-> "idle"]
IdlePay == [pc |-> "idle"]
IdlePav == [pc |-> "idle"]

(***************************************************************************)
(* run_game(p1_id, p2_id, rounds, noise) -> MatchResult                    *)
(***************************************************************************)
NoResult == [player_name |-> "", opponent_name |-> "", rounds |-> <<>>,
             player_score |-> 0, opponent_score |-> 0]

\* The draws one round can take: at most two by the strategies, two for noise.
RoundDraws == [1..4 -> BOOLEAN]

InitGame ==
    /\ \E p1_id \in RosterIds \cup UnknownIds, p2_id \in RosterIds \cup UnknownIds,
          noise \in NoiseLevels :
       \E rounds \in 0..(IF noise \in {0, 100} THEN MaxRounds ELSE MaxNoisyRounds) :
          game = [pc |-> "loop",
                  p1_id |-> p1_id, p2_id |-> p2_id, rounds |-> rounds, noise |-> noise,
                  p1 |-> create_strategy(p1_id), p2 |-> create_strategy(p2_id),
                  round |-> 0,
                  history |-> <<>>, p1_score |-> 0, p2_score |-> 0,
                  intent1 |-> "none", intent2 |-> "none",
                  flip1 |-> FALSE, flip2 |-> FALSE,
                  result |-> NoResult]
    /\ tourn = IdleTourn
    /\ evo = IdleEvo
    /\ pay = IdlePay
    /\ pav = IdlePav

\* One iteration of `for _ in 0..rounds`; round counts the iterations done.
GameRound ==
    /\ game.pc = "loop"
    /\ game.round < game.rounds
    /\ \E bits \in RoundDraws :
          LET r == play_round(game.p1, game.p2, game.history, game.noise,
                              [bits |-> bits, pos |-> 1])
          IN  game' = [game EXCEPT !.round = @ + 1,
                                   !.history = Append(@, <<r.a1, r.a2>>),
                                   !.p1_score = @ + r.payoff[1],
                                   !.p2_score = @ + r.payoff[2],
                                   !.intent1 = r.intent1,
                                   !.intent2 = r.intent2,
                                   !.flip1 = r.flip1,
                                   !.flip2 = r.flip2]
    /\ UNCHANGED <<tourn, evo, pay, pav>>

\* The MatchResult built with the two scores exchanged.
GameReturnScoresSwapped ==
    /\ game.pc = "loop"
    /\ game.round >= game.rounds
    /\ game' = [game EXCEPT !.pc = "done",
                            !.result = [player_name |-> name(game.p1),
                                        opponent_name |-> name(game.p2),
                                        rounds |-> game.history,
                                        player_score |-> game.p2_score,
                                        opponent_score |-> game.p1_score]]
    /\ UNCHANGED <<tourn, evo, pay, pav>>

\* The loop is over: build the MatchResult.
GameReturn ==
    /\ game.pc = "loop"
    /\ game.round >= game.rounds
    /\ game' = [game EXCEPT !.pc = "done",
                            !.result = [player_name |-> name(game.p1),
                                        opponent_name |-> name(game.p2),
                                        rounds |-> game.history,
                                        player_score |-> game.p1_score,
                                        opponent_score |-> game.p2_score]]
    /\ UNCHANGED <<tourn, evo, pay, pav>>

NextGame == GameRound \/ GameReturn

SpecGame == InitGame /\ [][NextGame]_vars

(***************************************************************************)
(* A whole match, as the tournament and the evolution play it inline: the  *)
(* round loop on a fresh history, keeping the row player's score only.     *)
(***************************************************************************)
RECURSIVE match_loop(_, _, _, _, _, _, _)
match_loop(p1, p2, rounds, noise, history, s1_sum, rng) ==
    IF Len(history) >= rounds
    THEN [history |-> history, s1_sum |-> s1_sum, rng |-> rng]
    ELSE LET r == play_round(p1, p2, history, noise, rng)
         IN  match_loop(p1, p2, rounds, noise, Append(history, <<r.a1, r.a2>>),
                        s1_sum + r.payoff[1], r.rng)

play_match(p1_id, p2_id, rounds, noise, rng) ==
    match_loop(create_strategy(p1_id), create_strategy(p2_id), rounds, noise, <<>>, 0, rng)

\* The sum of one player's payoffs over the recorded pairs of a history.
RECURSIVE ScoreOf(_, _)
ScoreOf(history, player) ==
    IF history = <<>> THEN 0
    ELSE calculate_payoff(Head(history)[1], Head(history)[2])[player]
         + ScoreOf(Tail(history), player)

\* Round counts of the matches inside a tournament or an evolution run.
MaxMatchRounds == 2

\* Length of the bit pattern that a tournament or evolution run reads its
\* random draws from (cyclically); every pattern of that length is explored.
SeedLen == 2

Seeds == [1..SeedLen -> BOOLEAN]

N == Len(all_ids)

(***************************************************************************)
(* run_tournament(rounds, noise) -> TournamentResult                       *)
(***************************************************************************)
\* ranking.sort_by(|a, b| b.1.cmp(&a.1)): a stable sort, score descending.
RECURSIVE insert_desc(_, _)
insert_desc(sorted, x) ==
    IF sorted = <<>> THEN <<x>>
    ELSE IF Head(sorted)[2] >= x[2]
         THEN <<Head(sorted)>> \o insert_desc(Tail(sorted), x)
         ELSE <<x>> \o sorted

\* An unstable sort: the elements are inserted from the last to the first, so
\* equal scores come out in reverse of their order in v.
RECURSIVE sort_ties_reversed(_)
sort_ties_reversed(v) ==
    IF v = <<>> THEN <<>>
    ELSE insert_desc(sort_ties_reversed(Tail(v)), Head(v))

RECURSIVE sort_by_score_desc(_)
sort_by_score_desc(v) ==
    IF v = <<>> THEN <<>>
    ELSE insert_desc(sort_by_score_desc(SubSeq(v, 1, Len(v) - 1)), v[Len(v)])

\* The sort left out: the ranking in roster order.
RankingUnsorted(total_scores) ==
    [k \in 1..N |-> <<name(create_strategy(all_ids[k])), total_scores[k]>>]

\* The sort the wrong way round: a.1.cmp(&b.1).
RankingAscending(total_scores) ==
    LET desc == sort_by_score_desc(RankingUnsorted(total_scores))
    IN  [k \in 1..N |-> desc[N + 1 - k]]

\* Step 4: zip ids with totals, map ids to display names, sort.
make_ranking(total_scores) ==
    sort_by_score_desc([k \in 1..N |-> <<name(create_strategy(all_ids[k])), total_scores[k]>>])

InitTournament ==
    /\ \E rounds \in 0..MaxMatchRounds, noise \in NoiseLevels, seed \in Seeds :
          tourn = [pc |-> "loop", rounds |-> rounds, noise |-> noise,
                   i |-> 1, j |-> 1,
                   total_scores |-> [k \in 1..N |-> 0],
                   matches |-> <<>>,
                   rng |-> [bits |-> seed, pos |-> 1],
                   ranking |-> <<>>]
    /\ game = IdleGame
    /\ evo = IdleEvo
    /\ pay = IdlePay
    /\ pav = IdlePav

\* The match of slot i against slot j with the column player's score credited
\* to slot j as well.
TournMatchBothScores ==
    /\ tourn.pc = "loop"
    /\ tourn.i <= N
    /\ LET m == play_match(all_ids[tourn.i], all_ids[tourn.j], tourn.rounds,
                           tourn.noise, tourn.rng)
       IN  tourn' = [tourn EXCEPT !.total_scores[tourn.i] = @ + m.s1_sum,
                                  !.total_scores[tourn.j] = @ + ScoreOf(m.history, 2),
                                  !.matches = Append(@, [i |-> tourn.i, j |-> tourn.j,
                                                         history |-> m.history,
                                                         s1_sum |-> m.s1_sum]),
                                  !.rng = m.rng,
                                  !.j = IF tourn.j = N THEN 1 ELSE tourn.j + 1,
                                  !.i = IF tourn.j = N THEN tourn.i + 1 ELSE tourn.i]
    /\ UNCHANGED <<game, evo, pay, pav>>

\* One iteration of the inner loop: the match of slot i against slot j.
\* matches keeps, for every match played, its pair of slots, the history it
\* ended with and the row player's score s1_sum.
TournMatch ==
    /\ tourn.pc = "loop"
    /\ tourn.i <= N
    /\ LET m == play_match(all_ids[tourn.i], all_ids[tourn.j], tourn.rounds,
                           tourn.noise, tourn.rng)
       IN  tourn' = [tourn EXCEPT !.total_scores[tourn.i] = @ + m.s1_sum,
                                  !.matches = Append(@, [i |-> tourn.i, j |-> tourn.j,
                                                         history |-> m.history,
                                                         s1_sum |-> m.s1_sum]),
                                  !.rng = m.rng,
                                  !.j = IF tourn.j = N THEN 1 ELSE tourn.j + 1,
                                  !.i = IF tourn.j = N THEN tourn.i + 1 ELSE tourn.i]
    /\ UNCHANGED <<game, evo, pay, pav>>

\* Both loops are over: pack, sort and return.
TournRank ==
    /\ tourn.pc = "loop"
    /\ tourn.i > N
    /\ tourn' = [tourn EXCEPT !.pc = "done",
                              !.ranking = make_ranking(tourn.total_scores)]
    /\ UNCHANGED <<game, evo, pay, pav>>

NextTournament == TournMatch \/ TournRank

SpecTournament == InitTournament /\ [][NextTournament]_vars

(***************************************************************************)
(* run_evolution(rounds, noise) -> Vec<Generation>                         *)
(*                                                                         *)
(* The command takes rounds and noise only.  A caller's request may carry  *)
(* initialPopulations and generationCount as well: the command has no such *)
(* parameters, so the request's values are kept in the state only to be    *)
(* compared with what the run does.                                        *)
(***************************************************************************)
\* A uniform start of 5 per slot.
UniformPopulation == <<5, 5, 5, 5, 5, 5, 5, 5>>

\* let mut population: Vec<u32> = vec![3, 5, 2, 20, 2, 2, 3, 3];
InitialPopulation == <<3, 5, 2, 20, 2, 2, 3, 3>>

\* let generations = 50;
generations == 50

\* let mut min_score = i32::MAX;
I32Max == 2147483647

\* initialPopulations values of the modelled requests: of the roster's length
\* and not.
PopulationInputs == {<<1, 0, 0, 4, 0, 0, 0, 2>>, <<7, 7, 7>>}

\* generationCount values of the modelled requests.
GenerationCountInputs == {2, 50}

RECURSIVE Sum(_)
Sum(v) == IF v = <<>> THEN 0 ELSE Head(v) + Sum(Tail(v))

\* population.iter().enumerate().filter(|(_, &count)| count > 0).map(|(i, _)| i)
RECURSIVE active_of(_, _)
active_of(population, k) ==
    IF k > Len(population) THEN <<>>
    ELSE (IF population[k] > 0 THEN <<k>> ELSE <<>>) \o active_of(population, k + 1)

\* The filter keeping every slot, extinct ones included.
ActiveAll(population) == [k \in 1..Len(population) |-> k]

active_strategies_of(population) == active_of(population, 1)

\* The break taken only when no species remains.
StopWhenNoneLeft(active) == Len(active) < 1

\* if active_strategies.len() <= 1 { break; }
stop_early(active) == Len(active) <= 1

\* all_ids.iter().zip(population.iter()).map(|(id, &count)| (name, count))
current_pop_display(population) ==
    [k \in 1..(IF N < Len(population) THEN N ELSE Len(population)) |->
        <<name(create_strategy(all_ids[k])), population[k]>>]

\* 2. Tournament phase.  The loops carry the scores, the random source,
\* whether an unsigned subtraction went below zero, and the representative
\* matches played (their pair of slots and row score p1_total).

\* The self-play match scaled by the whole count of the slot.
RECURSIVE fitness_row_self_counted(_, _, _, _, _, _, _)
fitness_row_self_counted(active, population, rounds, noise, i, start, c) ==
    IF c = 0 THEN start
    ELSE LET acc == fitness_row_self_counted(active, population, rounds, noise, i, start, c - 1)
             j == active[c]
             m == play_match(all_ids[i], all_ids[j], rounds, noise, acc.rng)
             p1_total == m.s1_sum
             opponent_count == population[j]
         IN  [scores |-> IF opponent_count > 0
                         THEN [acc.scores EXCEPT ![i] = @ + p1_total * opponent_count]
                         ELSE acc.scores,
              matches |-> Append(acc.matches, [i |-> i, j |-> j, p1_total |-> p1_total]),
              rng |-> m.rng,
              underflow |-> acc.underflow]

\* fitness_row: the inner loop `for &j in &active_strategies` of row i, after
\* its first c iterations, started in state start.
RECURSIVE fitness_row(_, _, _, _, _, _, _)
fitness_row(active, population, rounds, noise, i, start, c) ==
    IF c = 0 THEN start
    ELSE LET acc == fitness_row(active, population, rounds, noise, i, start, c - 1)
             j == active[c]
             m == play_match(all_ids[i], all_ids[j], rounds, noise, acc.rng)
             p1_total == m.s1_sum
             opponent_count == IF i = j THEN population[j] - 1 ELSE population[j]
         IN  [scores |-> IF opponent_count > 0
                         THEN [acc.scores EXCEPT ![i] = @ + p1_total * opponent_count]
                         ELSE acc.scores,
              matches |-> Append(acc.matches, [i |-> i, j |-> j, p1_total |-> p1_total]),
              rng |-> m.rng,
              underflow |-> acc.underflow \/ (i = j /\ population[j] < 1)]

\* 3. Selection phase: the scan for best and worst over the active slots.
RECURSIVE selection_scan(_, _, _, _)
selection_scan(active, scores, k, acc) ==
    IF k > Len(active) THEN acc
    ELSE LET i == active[k]
             avg_score == scores[i]
             up == IF avg_score > acc.max_score
                   THEN [acc EXCEPT !.max_score = avg_score, !.best_idx = i]
                   ELSE acc
             dn == IF avg_score < up.min_score
                   THEN [up EXCEPT !.min_score = avg_score, !.worst_idx = i]
                   ELSE up
         IN  selection_scan(active, scores, k + 1, dn)

\* The scan with >= and <=: of several slots with the same fitness the last one
\* is taken.
RECURSIVE selection_scan_last(_, _, _, _)
selection_scan_last(active, scores, k, acc) ==
    IF k > Len(active) THEN acc
    ELSE LET i == active[k]
             avg_score == scores[i]
             up == IF avg_score >= acc.max_score
                   THEN [acc EXCEPT !.max_score = avg_score, !.best_idx = i]
                   ELSE acc
             dn == IF avg_score <= up.min_score
                   THEN [up EXCEPT !.min_score = avg_score, !.worst_idx = i]
                   ELSE up
         IN  selection_scan_last(active, scores, k + 1, dn)

select_last_wins(active, scores) ==
    selection_scan_last(active, scores, 1,
                        [best_idx |-> 1, max_score |-> -1, worst_idx |-> 1, min_score |-> I32Max])

\* The scan over the whole roster, extinct slots included.
select_over_roster(active, scores) ==
    selection_scan([k \in 1..N |-> k], scores, 1,
                   [best_idx |-> 1, max_score |-> -1, worst_idx |-> 1, min_score |-> I32Max])

\* Slots are numbered from 1 here: the source's index 0 is slot 1.
select(active, scores) ==
    selection_scan(active, scores, 1,
                   [best_idx |-> 1, max_score |-> -1, worst_idx |-> 1, min_score |-> I32Max])

\* The fittest grows without the weakest shrinking.
ReallocateGrowOnly(population, best_idx, worst_idx) ==
    IF best_idx # worst_idx
    THEN [population EXCEPT ![best_idx] = @ + 1]
    ELSE population

\* if best_idx != worst_idx { population[best_idx] += 1; population[worst_idx] -= 1; }
reallocate(population, best_idx, worst_idx) ==
    IF best_idx # worst_idx
    THEN [population EXCEPT ![best_idx] = @ + 1, ![worst_idx] = @ - 1]
    ELSE population

InitEvolution ==
    /\ \E rounds \in 0..MaxMatchRounds, noise \in NoiseLevels, seed \in Seeds,
          initialPopulations \in PopulationInputs,
          generationCount \in GenerationCountInputs :
          evo = [pc |-> "loop", rounds |-> rounds, noise |-> noise,
                 initialPopulations |-> initialPopulations,
                 generationCount |-> generationCount,
                 population |-> InitialPopulation,
                 gen |-> 1,
                 history |-> <<>>,
                 active_strategies |-> <<>>,
                 row |-> 1,
                 scores |-> [k \in 1..N |-> 0],
                 matches |-> <<>>,
                 best_idx |-> 1, worst_idx |-> 1,
                 underflow |-> FALSE,
                 rng |-> [bits |-> seed, pos |-> 1]]
    /\ game = IdleGame
    /\ tourn = IdleTourn
    /\ pay = IdlePay
    /\ pav = IdlePav

\* Head of the generation loop: record the snapshot, compute the active set,
\* and break when at most one species remains.
EvoSnapshot ==
    /\ evo.pc = "loop"
    /\ evo.gen <= generations
    /\ LET active == active_strategies_of(evo.population)
       IN  evo' = [evo EXCEPT
                     !.history = Append(@, [gen_number |-> evo.gen,
                                            populations |-> current_pop_display(evo.population)]),
                     !.active_strategies = active,
                     !.scores = IF stop_early(active) THEN @ ELSE [k \in 1..N |-> 0],
                     !.matches = IF stop_early(active) THEN @ ELSE <<>>,
                     !.pc = IF stop_early(active) THEN "done" ELSE "fitness"]
    /\ UNCHANGED <<game, tourn, pay, pav>>

\* The tournament phase of the generation, one iteration of the outer loop
\* `for &i in &active_strategies`: slot i plays one representative match
\* against every active slot j.
EvoFitnessRow ==
    /\ evo.pc = "fitness"
    /\ LET n == Len(evo.active_strategies)
           f == fitness_row(evo.active_strategies, evo.population, evo.rounds, evo.noise,
                            evo.active_strategies[evo.row],
                            [scores |-> evo.scores, matches |-> evo.matches,
                             rng |-> evo.rng, underflow |-> evo.underflow], n)
       IN  evo' = [evo EXCEPT !.scores = f.scores, !.matches = f.matches,
                              !.rng = f.rng,
                              !.underflow = f.underflow,
                              !.row = IF evo.row = n THEN 1 ELSE evo.row + 1,
                              !.pc = IF evo.row = n THEN "selection" ELSE "fitness"]
    /\ UNCHANGED <<game, tourn, pay, pav>>

\* The selection phase with the generation's snapshot emitted after it: the
\* snapshot of the generation holds the counts the selection left.
EvoSelectionThenSnapshot ==
    /\ evo.pc = "selection"
    /\ LET s == select(evo.active_strategies, evo.scores)
           after == reallocate(evo.population, s.best_idx, s.worst_idx)
       IN  evo' = [evo EXCEPT
                     !.best_idx = s.best_idx,
                     !.worst_idx = s.worst_idx,
                     !.underflow = @ \/ (s.best_idx # s.worst_idx
                                           /\ evo.population[s.worst_idx] < 1),
                     !.population = after,
                     !.history[Len(evo.history)].populations = current_pop_display(after),
                     !.gen = @ + 1,
                     !.pc = "loop"]
    /\ UNCHANGED <<game, tourn, pay, pav>>

\* The selection phase, then on to the next generation.
EvoSelection ==
    /\ evo.pc = "selection"
    /\ LET s == select(evo.active_strategies, evo.scores)
       IN  evo' = [evo EXCEPT
                     !.best_idx = s.best_idx,
                     !.worst_idx = s.worst_idx,
                     !.underflow = @ \/ (s.best_idx # s.worst_idx
                                           /\ evo.population[s.worst_idx] < 1),
                     !.population = reallocate(evo.population, s.best_idx, s.worst_idx),
                     !.gen = @ + 1,
                     !.pc = "loop"]
    /\ UNCHANGED <<game, tourn, pay, pav>>

\* The range 1..=generations is exhausted: return the history.
EvoReturn ==
    /\ evo.pc = "loop"
    /\ evo.gen > generations
    /\ evo' = [evo EXCEPT !.pc = "done"]
    /\ UNCHANGED <<game, tourn, pay, pav>>

NextEvolution == EvoSnapshot \/ EvoFitnessRow \/ EvoSelection \/ EvoReturn

SpecEvolution == InitEvolution /\ [][NextEvolution]_vars

(***************************************************************************)
(* calculate_payoff(a1, a2) on its own.  The function takes the two        *)
(* actions only; the payoff matrix a caller has in mind is kept in the     *)
(* state to be compared with what the function returns.                    *)
(***************************************************************************)
\* Payoff matrices of the modelled callers: the classical one and others.
Matrices == [T : {5, 7}, R : {3, 4}, P : {1, 2}, S : {0, -1}]

ClassicalMatrix == [T |-> 5, R |-> 3, P |-> 1, S |-> 0]

InitPayoff ==
    /\ \E a1 \in Action, a2 \in Action, matrix \in Matrices :
          pay = [pc |-> "call", a1 |-> a1, a2 |-> a2, matrix |-> matrix,
                 result |-> <<>>]
    /\ game = IdleGame
    /\ tourn = IdleTourn
    /\ evo = IdleEvo
    /\ pav = IdlePav

PayoffCall ==
    /\ pay.pc = "call"
    /\ pay' = [pay EXCEPT !.pc = "done", !.result = calculate_payoff(pay.a1, pay.a2)]
    /\ UNCHANGED <<game, tourn, evo, pav>>

NextPayoff == PayoffCall

SpecPayoff == InitPayoff /\ [][NextPayoff]_vars

(***************************************************************************)
(* Pavlov::next_move(history) on its own.  The method takes the history    *)
(* only; the payoff matrix a caller has in mind is kept in the state to be *)
(* compared with what the method answers.                                  *)
(***************************************************************************)
\* Matrices without the classical ordering T > R > P > S.
UnorderedMatrices == {[T |-> 5, R |-> 1, P |-> 3, S |-> 0],
                      [T |-> 2, R |-> 3, P |-> 1, S |-> 0],
                      [T |-> 5, R |-> 6, P |-> 1, S |-> 7]}

\* The own-perspective histories of at most MaxHistory rounds.
Histories == UNION {[1..n -> Action \X Action] : n \in 0..MaxHistory}

InitPavlov ==
    /\ \E history \in Histories, matrix \in Matrices \cup UnorderedMatrices :
          pav = [pc |-> "call", history |-> history, matrix |-> matrix,
                 result |-> "none"]
    /\ game = IdleGame
    /\ tourn = IdleTourn
    /\ evo = IdleEvo
    /\ pay = IdlePay

PavlovCall ==
    /\ pav.pc = "call"
    /\ pav' = [pav EXCEPT !.pc = "done", !.result = Pavlov_next_move(pav.history)]
    /\ UNCHANGED <<game, tourn, evo, pay>>

NextPavlov == PavlovCall

SpecPavlov == InitPavlov /\ [][NextPavlov]_vars

(***************************************************************************)
(* Properties                                                              *)
(***************************************************************************)
\* The counts of a snapshot, without the display names.
CountsOf(snapshot) == [k \in 1..Len(snapshot.populations) |-> snapshot.populations[k][2]]

\* The number of slots of a snapshot with count > 0.
ActiveCount(snapshot) ==
    Cardinality({k \in 1..Len(snapshot.populations) : snapshot.populations[k][2] > 0})

\* C1. In an evolution run the sum of the population vector is the same in
\* every emitted snapshot, and every selection step leaves the sum of the live
\* vector unchanged, whatever the matches gave.
C1_PopulationSumConstant ==
    evo.pc # "idle" =>
        /\ Sum(evo.population) = 40
        /\ \A g \in 1..Len(evo.history) :
              Sum(CountsOf(evo.history[g])) = Sum(CountsOf(evo.history[1]))

\* C1 witness: a snapshot that differs from the one before it (a selection
\* step moved an individual).
C1_Witness ==
    /\ evo.pc # "idle"
    /\ \E g \in 2..Len(evo.history) :
          CountsOf(evo.history[g]) # CountsOf(evo.history[g - 1])

\* What C2 says of a finished run whose cap is `cap`: it emitted exactly cap
\* snapshots or fewer, the last one being the first with at most one active
\* slot; snapshot g belongs to generation g, so the snapshots are as many as
\* the generations run.
StoppedAsCapped(cap) ==
    LET n == Len(evo.history)
    IN  /\ n >= 1
        /\ \/ n = cap
           \/ n < cap /\ ActiveCount(evo.history[n]) <= 1
        /\ \A g \in 1..(n - 1) : ActiveCount(evo.history[g]) >= 2
        /\ \A g \in 1..n : evo.history[g].gen_number = g

StepsLeft ==
    IF evo.pc = "done" THEN 0
    ELSE (generations + 1 - evo.gen) * (N + 3)
         + (CASE evo.pc = "loop" -> N + 2
              [] evo.pc = "fitness" -> N + 2 - evo.row
              [] evo.pc = "selection" -> 1)

\* A step of the run is possible: the guard of one of its actions holds.
CanStep ==
    \/ evo.pc = "loop" /\ evo.gen <= generations
    \/ evo.pc = "loop" /\ evo.gen > generations
    \/ evo.pc = "fitness" /\ evo.row \in 1..Len(evo.active_strategies)
    \/ evo.pc = "selection"

RosterNames == {name(create_strategy(all_ids[k])) : k \in 1..N}

\* C3. The ranking returned by the tournament holds each of the 8 roster
\* strategies exactly once, each with its total score, and its scores are in
\* non-increasing order.
C3_RankingIsSortedPermutation ==
    tourn.pc = "done" =>
        /\ Len(tourn.ranking) = 8
        /\ \A nm \in RosterNames :
              Cardinality({k \in 1..Len(tourn.ranking) : tourn.ranking[k][1] = nm}) = 1
        /\ \A k \in 1..Len(tourn.ranking) :
              \E slot \in 1..N :
                 tourn.ranking[k] = <<name(create_strategy(all_ids[slot])),
                                      tourn.total_scores[slot]>>
        /\ \A k \in 1..(Len(tourn.ranking) - 1) :
              tourn.ranking[k][2] >= tourn.ranking[k + 1][2]

\* C3 witness: a finished tournament with distinct scores whose ranking is not
\* the roster order.
C3_Witness ==
    /\ tourn.pc = "done"
    /\ tourn.ranking[1][2] > tourn.ranking[8][2]
    /\ tourn.ranking # RankingUnsorted(tourn.total_scores)

\* C4. At noise 0, tit_for_tat (player 1) against always_defect (player 2):
\* the recorded history is (Cooperate, Defect) in round 1 and (Defect, Defect)
\* in every later round; a finished match of 5 rounds has scores 4 and 9.
C4_TitForTatVsAlwaysDefect ==
    (game.pc # "idle" /\ game.noise = 0
        /\ game.p1_id = "tit_for_tat" /\ game.p2_id = "always_defect") =>
        /\ \A k \in 1..Len(game.history) :
              game.history[k] = IF k = 1 THEN <<Cooperate, Defect>>
                                         ELSE <<Defect, Defect>>
        /\ game.pc = "done" =>
              /\ game.result.rounds = game.history
              /\ Len(game.result.rounds) = game.rounds
        /\ (game.pc = "done" /\ game.rounds = 5) =>
              /\ game.result.player_score = 4
              /\ game.result.opponent_score = 9

\* C4 witness: the finished 5-round match of the scenario.
C4_Witness ==
    /\ game.pc = "done" /\ game.noise = 0 /\ game.rounds = 5
    /\ game.p1_id = "tit_for_tat" /\ game.p2_id = "always_defect"
    /\ Len(game.result.rounds) = 5

\* C5. At noise 0, tit_for_tat against always_cooperate (either seat): both
\* recorded actions are Cooperate in every round, for every match length.
C5_TitForTatVsAlwaysCooperate ==
    (game.pc # "idle" /\ game.noise = 0
        /\ \/ game.p1_id = "tit_for_tat" /\ game.p2_id = "always_cooperate"
           \/ game.p1_id = "always_cooperate" /\ game.p2_id = "tit_for_tat") =>
        /\ \A k \in 1..Len(game.history) : game.history[k] = <<Cooperate, Cooperate>>
        /\ game.pc = "done" =>
              /\ game.result.rounds = game.history
              /\ Len(game.result.rounds) = game.rounds

\* C5 witness: such a match, finished after at least 3 rounds.
C5_Witness ==
    /\ game.pc = "done" /\ game.noise = 0 /\ game.rounds >= 3
    /\ game.p1_id = "tit_for_tat" /\ game.p2_id = "always_cooperate"
    /\ Len(game.result.rounds) = game.rounds

BothAlwaysCooperate ==
    /\ game.pc # "idle"
    /\ game.p1_id = "always_cooperate"
    /\ game.p2_id = "always_cooperate"

\* C6 as stated: always_cooperate against always_cooperate, N rounds, any
\* noise: both final scores are 3 * N.
C6_Original ==
    (BothAlwaysCooperate /\ game.pc = "done") =>
        /\ game.result.player_score = 3 * game.rounds
        /\ game.result.opponent_score = 3 * game.rounds

\* C6, amended.  always_cooperate against always_cooperate, N rounds, at noise
\* probability 0: both final scores are 3 * N on every run (after k rounds both
\* running scores are 3 * k).
C6_AllCooperateScoresAtNoiseZero ==
    (BothAlwaysCooperate /\ game.noise = 0) =>
        /\ game.p1_score = 3 * Len(game.history)
        /\ game.p2_score = 3 * Len(game.history)
        /\ game.pc = "done" =>
              /\ game.result.player_score = 3 * game.rounds
              /\ game.result.opponent_score = 3 * game.rounds

\* C6 witness: such a match at noise 0, finished after at least 2 rounds.
C6_Witness ==
    /\ BothAlwaysCooperate /\ game.noise = 0
    /\ game.pc = "done" /\ game.rounds >= 2
    /\ game.result.player_score = 3 * game.rounds

\* C7. In every round of a match, grim_trigger's intended action is Defect if
\* its own-perspective history so far holds a round in which the opponent's
\* recorded action was Defect, and Cooperate otherwise: once the opponent has
\* defected, grim_trigger intends Defect in every remaining round, whatever the
\* opponent does afterwards.  (intent1, intent2 are the intents of the last
\* round played, taken on the history before it.)
C7_GrimTriggerDefectsForever ==
    (game.pc # "idle" /\ Len(game.history) >= 1) =>
        LET earlier == 1..(Len(game.history) - 1)
        IN  /\ game.p1_id = "grim_trigger" =>
                 game.intent1 = IF \E m \in earlier : game.history[m][2] = Defect
                                THEN Defect ELSE Cooperate
            /\ game.p2_id = "grim_trigger" =>
                 game.intent2 = IF \E m \in earlier : game.history[m][1] = Defect
                                THEN Defect ELSE Cooperate

\* C7 witness: the opponent defected in round 1 and cooperated in round 2, and
\* grim_trigger intends Defect in round 3.
C7_Witness ==
    /\ game.pc = "loop" /\ game.p1_id = "grim_trigger"
    /\ Len(game.history) = 3
    /\ game.history[1][2] = Defect
    /\ game.history[2][2] = Cooperate
    /\ game.intent1 = Defect

\* The payoff table of a matrix m, as pairs (score1, score2).
PayoffTable(m, a1, a2) ==
    CASE a1 = Defect /\ a2 = Cooperate -> <<m.T, m.S>>
      [] a1 = Cooperate /\ a2 = Cooperate -> <<m.R, m.R>>
      [] a1 = Defect /\ a2 = Defect -> <<m.P, m.P>>
      [] a1 = Cooperate /\ a2 = Defect -> <<m.S, m.T>>

C9_UnknownIdIsAlwaysDefect ==
    game.pc # "idle" =>
        /\ game.p1 \in StrategyTypes
        /\ game.p2 \in StrategyTypes
        /\ game.p1_id \notin RosterIds =>
              /\ game.p1 = create_strategy("always_defect")
              /\ game.p1 = "AlwaysDefect"
              /\ Len(game.history) >= 1 => game.intent1 = Defect
              /\ game.pc = "done" => game.result.player_name = "Always Defect"
        /\ game.p2_id \notin RosterIds =>
              /\ game.p2 = create_strategy("always_defect")
              /\ game.p2 = "AlwaysDefect"
              /\ Len(game.history) >= 1 => game.intent2 = Defect
              /\ game.pc = "done" => game.result.opponent_name = "Always Defect"

\* C9 witness: a finished match of an unknown identifier against tit_for_tat.
C9_Witness ==
    /\ game.pc = "done" /\ game.rounds >= 2
    /\ game.p1_id \notin RosterIds
    /\ game.p2_id = "tit_for_tat"
    /\ game.result.player_name = "Always Defect"

RosterSlot(nm) == CHOOSE slot \in 1..N : name(create_strategy(all_ids[slot])) = nm

\* C11. In the ranking returned by the tournament, two strategies with equal
\* total score appear in their roster order: the one of the lower roster slot
\* comes first.
C11_TiesKeepRosterOrder ==
    tourn.pc = "done" =>
        \A k \in 1..Len(tourn.ranking) : \A m \in (k + 1)..Len(tourn.ranking) :
            tourn.ranking[k][2] = tourn.ranking[m][2] =>
                RosterSlot(tourn.ranking[k][1]) < RosterSlot(tourn.ranking[m][1])

\* C11 witness: a finished tournament whose ranking was reordered by the sort
\* and holds two strategies with equal positive totals next to each other.
C11_Witness ==
    /\ tourn.pc = "done"
    /\ tourn.ranking # RankingUnsorted(tourn.total_scores)
    /\ \E k \in 1..(Len(tourn.ranking) - 1) :
          /\ tourn.ranking[k][2] = tourn.ranking[k + 1][2]
          /\ tourn.ranking[k][2] > 0

\* The actions a policy can answer to a history (one action, or either when
\* the answer hangs on a random draw).
Answers(s, history) ==
    {next_move(s, history, [bits |-> <<draw>>, pos |-> 1]).action : draw \in BOOLEAN}

\* C12. In every round of a match the pair appended to the history and scored
\* is the pair after noise (each intent toggled exactly when its noise draw
\* came out true: never at noise 0, always at noise 1), player 1's intent is
\* its policy's answer to the recorded history of the earlier rounds, earlier
\* flips included, and player 2's intent is its policy's answer to the
\* element-wise swap of that history.  (intent and flip are those of the last
\* round played.)
C12_RecordedPairIsAfterNoise ==
    (game.pc # "idle" /\ Len(game.history) >= 1) =>
        LET k == Len(game.history)
            earlier == SubSeq(game.history, 1, k - 1)
            swapped == [m \in 1..(k - 1) |-> <<earlier[m][2], earlier[m][1]>>]
            after1 == IF game.flip1 THEN toggle(game.intent1) ELSE game.intent1
            after2 == IF game.flip2 THEN toggle(game.intent2) ELSE game.intent2
        IN  /\ game.history[k] = <<after1, after2>>
            /\ game.noise = 0 => (~game.flip1 /\ ~game.flip2)
            /\ game.noise = 100 => (game.flip1 /\ game.flip2)
            /\ game.p1_score = ScoreOf(earlier, 1) + calculate_payoff(after1, after2)[1]
            /\ game.p2_score = ScoreOf(earlier, 2) + calculate_payoff(after1, after2)[2]
            /\ game.intent1 \in Answers(game.p1, earlier)
            /\ game.intent2 \in Answers(game.p2, swapped)

\* C12 witness: tit_for_tat (player 2) meets always_cooperate; noise flipped
\* player 1's Cooperate in round 1 only, the flip was scored (5 for player 1),
\* and in round 2 tit_for_tat, seeing the flipped action as its opponent's,
\* intends Defect.
C12_Witness ==
    /\ game.pc = "loop"
    /\ game.p1_id = "always_cooperate" /\ game.p2_id = "tit_for_tat"
    /\ Len(game.history) = 2
    /\ game.history[1] = <<Defect, Cooperate>>
    /\ game.intent1 = Cooperate
    /\ game.intent2 = Defect
    /\ ~game.flip1
    /\ game.p1_score = 5 + calculate_payoff(game.history[2][1], game.history[2][2])[1]

\* The matches played so far with slot as the row player: they are
\* consecutive in tourn.matches, row after row.
RowMatches(slot) ==
    {k \in 1..Len(tourn.matches) : (slot - 1) * N < k /\ k <= slot * N}

\* The sum of the row player's scores, recomputed from the recorded
\* histories, over the matches of a row.
RowTotal(slot) ==
    Sum([c \in 1..Cardinality(RowMatches(slot)) |->
            ScoreOf(tourn.matches[(slot - 1) * N + c].history, 1)])

\* C13. The tournament plays one match for every ordered pair (i, j) of the 8
\* roster slots, row by row, self-play included: 64 matches when it is done,
\* exactly one per ordered pair.  Every match starts from an empty history (it
\* has exactly `rounds` rounds and its score is the row player's payoff over
\* them), and the total of slot i is the sum of the row player's scores over
\* the matches in which i is the row player: no column player's score is
\* added to any total.
C13_OneMatchPerOrderedPair ==
    tourn.pc # "idle" =>
        /\ \A k \in 1..Len(tourn.matches) :
              /\ tourn.matches[k].i = ((k - 1) \div N) + 1
              /\ tourn.matches[k].j = ((k - 1) % N) + 1
              /\ Len(tourn.matches[k].history) = tourn.rounds
              /\ tourn.matches[k].s1_sum = ScoreOf(tourn.matches[k].history, 1)
        /\ tourn.pc = "loop" => Len(tourn.matches) = (tourn.i - 1) * N + (tourn.j - 1)
        /\ tourn.pc = "done" =>
              /\ Len(tourn.matches) = 64
              /\ \A i \in 1..8 : \A j \in 1..8 :
                    Cardinality({k \in 1..Len(tourn.matches) :
                                    tourn.matches[k].i = i /\ tourn.matches[k].j = j}) = 1
        /\ \A slot \in 1..N : tourn.total_scores[slot] = RowTotal(slot)

\* C13 witness: a finished tournament in which some match gave its column
\* player more than its row player, and a self-play match gave a positive
\* score.
C13_Witness ==
    /\ tourn.pc = "done"
    /\ Len(tourn.matches) = 64
    /\ \E k \in 1..Len(tourn.matches) :
          /\ tourn.matches[k].i # tourn.matches[k].j
          /\ ScoreOf(tourn.matches[k].history, 2) > ScoreOf(tourn.matches[k].history, 1)
    /\ \E k \in 1..Len(tourn.matches) :
          /\ tourn.matches[k].i = tourn.matches[k].j
          /\ tourn.matches[k].s1_sum > 0

\* The slots of a sequence of slots.
SlotsOf(active) == {active[k] : k \in 1..Len(active)}

\* The counts the generation just selected started from: those of the last
\* snapshot.
CountsBeforeSelection == CountsOf(evo.history[Len(evo.history)])

\* A selection step has just been taken: best_idx, worst_idx, scores and
\* active_strategies are those of the generation of the last snapshot.
AfterSelection == evo.pc = "loop" /\ Len(evo.history) >= 1

\* C14. After the selection of a generation (which then had at least two
\* active slots): best is the first active slot, in roster order, with the
\* maximum accumulated fitness, and worst the first active slot with the
\* minimum; when best # worst the count of best has grown by exactly 1, that of
\* worst has shrunk by exactly 1 and no other count has changed; when
\* best = worst all active fitnesses are equal and the population is unchanged.
C14_SelectionFirstBestFirstWorst ==
    AfterSelection =>
        LET active == SlotsOf(evo.active_strategies)
            before == CountsBeforeSelection
            best == evo.best_idx
            worst == evo.worst_idx
        IN  /\ active = {k \in 1..N : before[k] > 0}
            /\ Cardinality(active) >= 2
            /\ best \in active
            /\ \A a \in active : evo.scores[a] <= evo.scores[best]
            /\ \A a \in active : a < best => evo.scores[a] < evo.scores[best]
            /\ worst \in active
            /\ \A a \in active : evo.scores[a] >= evo.scores[worst]
            /\ \A a \in active : a < worst => evo.scores[a] > evo.scores[worst]
            /\ Len(evo.population) = N
            /\ best # worst =>
                  \A k \in 1..N :
                     evo.population[k] = IF k = best THEN before[k] + 1
                                         ELSE IF k = worst THEN before[k] - 1
                                         ELSE before[k]
            /\ best = worst =>
                  /\ \A k \in 1..N : evo.population[k] = before[k]
                  /\ \A a \in active : evo.scores[a] = evo.scores[best]

\* C14 witness: a selection that moved an individual from worst to best,
\* where a later active slot had the same fitness as best and another the same
\* as worst.
C14_Witness ==
    /\ AfterSelection
    /\ evo.best_idx # evo.worst_idx
    /\ evo.population[evo.best_idx] = CountsBeforeSelection[evo.best_idx] + 1
    /\ \E a \in SlotsOf(evo.active_strategies) :
          a > evo.best_idx /\ evo.scores[a] = evo.scores[evo.best_idx]
    /\ \E a \in SlotsOf(evo.active_strategies) :
          a > evo.worst_idx /\ evo.scores[a] = evo.scores[evo.worst_idx]

\* The opponents of type j that a slot i meets: the count of j, less one when
\* j is i itself.
Opponents(counts, i, j) == IF i = j THEN counts[j] - 1 ELSE counts[j]

\* C15. When the tournament phase of a generation is over, one representative
\* match has been played for every ordered pair of active slots and none with
\* an inactive slot, its row score within 0..5 * rounds; the fitness
\* of an active slot i is the sum, over the active slots j, of i's row score
\* in its match against j times count[j] when i # j and count[j] - 1 when
\* i = j (nothing from self-play for a slot of count 1); the fitness of an
\* inactive slot is 0.
C15_FitnessIsScaledRowScores ==
    evo.pc = "selection" =>
        LET active == evo.active_strategies
            n == Len(active)
        IN  /\ SlotsOf(active) = {k \in 1..N : evo.population[k] > 0}
            /\ Len(evo.matches) = n * n
            /\ \A r \in 1..n : \A c \in 1..n :
                  LET m == evo.matches[(r - 1) * n + c]
                  IN  /\ m.i = active[r]
                      /\ m.j = active[c]
                      /\ m.p1_total \in 0..(5 * evo.rounds)
            /\ \A r \in 1..n :
                  evo.scores[active[r]] =
                      Sum([c \in 1..n |->
                              evo.matches[(r - 1) * n + c].p1_total
                                * Opponents(evo.population, active[r], active[c])])
            /\ \A k \in 1..N : k \notin SlotsOf(active) => evo.scores[k] = 0

\* C15 witness: the tournament phase of a generation with an extinct slot and
\* an active slot of count 1 whose self-play match gave a positive row score,
\* and another slot whose fitness is positive.
C15_Witness ==
    /\ evo.pc = "selection"
    /\ \E k \in 1..N : evo.population[k] = 0
    /\ \E k \in 1..Len(evo.matches) :
          /\ evo.matches[k].i = evo.matches[k].j
          /\ evo.population[evo.matches[k].i] = 1
          /\ evo.matches[k].p1_total > 0
    /\ \E k \in 1..N : evo.scores[k] > 0

\* Win-stay, lose-shift for a matrix m: Cooperate on an empty history, else
\* the own last action again when the own payoff of the last round, by m, is
\* at least m.R, and the opposite action when it is less.
WinStayLoseShift(m, history) ==
    IF history = <<>> THEN Cooperate
    ELSE LET own == history[Len(history)][1]
             opp == history[Len(history)][2]
         IN  IF PayoffTable(m, own, opp)[1] >= m.R THEN own ELSE toggle(own)

C17_NoUnsignedUnderflow ==
    evo.pc # "idle" =>
        /\ ~evo.underflow
        /\ \A k \in 1..Len(evo.population) : evo.population[k] \in 0..40
        /\ Len(evo.history) >= 1 =>
              LET last == evo.history[Len(evo.history)]
                  total == Sum(CountsOf(last))
              IN  \A k \in 1..Len(last.populations) : last.populations[k][2] \in 0..total
        /\ evo.pc \in {"fitness", "selection"} =>
              \A k \in 1..Len(evo.active_strategies) :
                 evo.population[evo.active_strategies[k]] >= 1
        /\ (AfterSelection /\ evo.best_idx # evo.worst_idx) =>
              CountsBeforeSelection[evo.worst_idx] >= 1

\* C17 witness: the worst slot had count 1, for which the self-play count
\* 1 - 1 was computed, and was decremented to 0.
C17_Witness ==
    /\ AfterSelection
    /\ evo.best_idx # evo.worst_idx
    /\ CountsBeforeSelection[evo.worst_idx] = 1
    /\ evo.population[evo.worst_idx] = 0
    /\ \E k \in 1..Len(evo.matches) :
          evo.matches[k].i = evo.worst_idx /\ evo.matches[k].j = evo.worst_idx

\* C18. Extinction is permanent: a slot whose count is 0 in a snapshot has
\* count 0 in the next snapshot, hence in every later one, and in the live
\* vector; the slot that a selection makes grow had a count > 0 before it,
\* also when every active fitness is 0 (as with zero rounds).
C18_ExtinctionIsPermanent ==
    evo.pc # "idle" =>
        /\ \A g \in 1..(Len(evo.history) - 1) :
              \A k \in 1..N :
                 evo.history[g].populations[k][2] = 0 =>
                    evo.history[g + 1].populations[k][2] = 0
        /\ Len(evo.history) >= 1 =>
              \A k \in 1..N :
                 evo.history[Len(evo.history)].populations[k][2] = 0 =>
                    evo.population[k] = 0
        /\ AfterSelection =>
              /\ CountsBeforeSelection[evo.best_idx] > 0
              /\ (\A k \in 1..N : evo.scores[k] = 0) =>
                    evo.best_idx = evo.active_strategies[1]

\* C18 witness: a slot extinct three snapshots ago is still extinct although
\* the last selection moved an individual between two other slots.
C18_Witness ==
    /\ AfterSelection
    /\ Len(evo.history) >= 3
    /\ evo.best_idx # evo.worst_idx
    /\ \E k \in 1..N :
          /\ evo.history[Len(evo.history) - 2].populations[k][2] = 0
          /\ evo.population[k] = 0
          /\ k # evo.worst_idx

\* The last step was the emission of a snapshot: best_idx and worst_idx are
\* still those of the selection of the generation before.
SnapshotJustTaken ==
    \/ evo.pc \in {"fitness", "selection"}
    \/ evo.pc = "done" /\ evo.gen <= generations

\* The run went through all its generations: the last step but one was the
\* selection of the last generation.
EndedAtCap == evo.pc = "done" /\ evo.gen > generations

\* counts is what the selection (best, worst) makes of before.
Selected(before, best, worst, counts) ==
    \A k \in 1..N :
       counts[k] = IF best = worst THEN before[k]
                   ELSE IF k = best THEN before[k] + 1
                   ELSE IF k = worst THEN before[k] - 1
                   ELSE before[k]

\* C19. Snapshots are emitted before selection.  The first snapshot has
\* generation index 1 and holds the population the run starts with; the g-th
\* snapshot has index g; every snapshot lists the 8 roster slots, by display
\* name, in roster order; a snapshot just emitted holds the live counts, which
\* are those of the snapshot before it with that generation's selection
\* applied; after a selection the last snapshot still holds the counts from
\* before it, and a run that ends at the cap never emits what the selection
\* of the last generation left.
C19_SnapshotsBeforeSelection ==
    (evo.pc # "idle" /\ Len(evo.history) >= 1) =>
        LET n == Len(evo.history)
            last == CountsOf(evo.history[n])
        IN  /\ evo.history[1].gen_number = 1
            /\ \A k \in 1..N : evo.history[1].populations[k][2] = InitialPopulation[k]
            /\ \A g \in 1..n :
                  /\ evo.history[g].gen_number = g
                  /\ Len(evo.history[g].populations) = 8
                  /\ \A k \in 1..8 :
                        evo.history[g].populations[k][1] = name(create_strategy(all_ids[k]))
            /\ SnapshotJustTaken =>
                  /\ evo.gen = n
                  /\ \A k \in 1..N : last[k] = evo.population[k]
                  /\ n >= 2 => Selected(CountsOf(evo.history[n - 1]),
                                         evo.best_idx, evo.worst_idx, last)
            /\ (AfterSelection \/ EndedAtCap) =>
                  /\ evo.gen = n + 1
                  /\ Selected(last, evo.best_idx, evo.worst_idx, evo.population)
            /\ EndedAtCap => n = generations

\* C19 witness: a run ended at the cap, after 50 snapshots, whose last
\* selection moved an individual: the live counts differ from the last
\* snapshot, and the snapshot before the last differs from the last.
C19_Witness ==
    /\ EndedAtCap
    /\ Len(evo.history) = 50
    /\ evo.best_idx # evo.worst_idx
    /\ evo.population[evo.best_idx] = evo.history[50].populations[evo.best_idx][2] + 1
    /\ evo.history[49].populations # evo.history[50].populations

\* C20. In every match, after k iterations of the round loop the history has
\* exactly k rounds, k at most the requested round count, and each running
\* score is the sum of that player's payoffs over the recorded pairs; the
\* returned MatchResult holds that history, of exactly `rounds` rounds, and
\* scores that are recomputed from its rounds alone.
C20_ScoresRecomputableFromHistory ==
    game.pc # "idle" =>
        /\ game.round <= game.rounds
        /\ Len(game.history) = game.round
        /\ game.p1_score = ScoreOf(game.history, 1)
        /\ game.p2_score = ScoreOf(game.history, 2)
        /\ game.pc = "done" =>
              /\ game.result.rounds = game.history
              /\ Len(game.result.rounds) = game.rounds
              /\ game.result.player_score = ScoreOf(game.result.rounds, 1)
              /\ game.result.opponent_score = ScoreOf(game.result.rounds, 2)

\* C20 witness: a finished noisy match of at least 3 rounds whose two scores
\* differ and whose history holds a mutual cooperation and a unilateral
\* defection.
C20_Witness ==
    /\ game.pc = "done" /\ game.noise = 50 /\ game.rounds >= 3
    /\ Len(game.result.rounds) = game.rounds
    /\ game.result.player_score > game.result.opponent_score
    /\ game.result.opponent_score > 0
    /\ \E k \in 1..Len(game.result.rounds) :
          game.result.rounds[k] = <<Cooperate, Cooperate>>
    /\ \E k \in 1..Len(game.result.rounds) :
          game.result.rounds[k] = <<Defect, Cooperate>>

====
